---- MODULE Spec2Model ----
(***************************************************************************)
(* Model of index.js: the WhatsApp session lifecycle (client events,       *)
(* restartWhatsAppClient, restart timers) and the POST /send-group-message *)
(* and POST /restart handlers.  Node runs one callback at a time, so each  *)
(* action is one synchronous run of a callback up to its next await.       *)
(***************************************************************************)
EXTENDS Integers, Sequences, FiniteSets, TLC

(* ---- program constants ---- *)
MAX_RESTART_ATTEMPTS == 3
MAX_SEND_RETRIES == 2
DISCONNECT_RESTART_DELAY == 5
BROWSER_ERROR_RESTART_DELAY == 1
SEND_RETRY_DELAY == 1

(* ---- bounds of the model ---- *)
NumRequests == 1
MaxTimers == 2
MaxHandles == 2
MaxRestartRuns == 2
MaxQrWrites == 1
MaxShutdowns == 2

Requests == 1..NumRequests
Handles == 1..MaxHandles
RestartRuns == 1..MaxRestartRuns
ShutdownRuns == 1..MaxShutdowns
Delays == 0..DISCONNECT_RESTART_DELAY

(* ---- JavaScript values ---- *)
Undefined == "<undefined>"
NoHandle == 0
Truthy(v) == v # Undefined /\ v # ""

(* the configured AUTH_TOKEN: unset or a secret *)
AuthTokens == {Undefined, "s3cret"}
(* Authorization headers a caller may send *)
AuthHeaders == {Undefined, "Bearer s3cret", "Bearer wrong"}
BearerOf(token) == IF token = "s3cret" THEN "Bearer s3cret" ELSE "Bearer <other>"

AuthRejectedIfPresent(token, header) ==
  Truthy(token) /\ header # Undefined /\ header # BearerOf(token)

(* lines 254 and 401: AUTH_TOKEN && authHeader !== `Bearer ${AUTH_TOKEN}` *)
AuthRejected(token, header) == Truthy(token) /\ header # BearerOf(token)

(* the requests a caller may POST to /send-group-message: header and body *)
SendInput(h, i, n, m) == [header |-> h, groupId |-> i, groupName |-> n, message |-> m]
SendInputs ==
  { SendInput("Bearer s3cret", "X@g.us", Undefined, "hi"),
    SendInput("Bearer s3cret", Undefined, "Team", "hi"),
    SendInput("Bearer s3cret", "X@g.us", "Team", "hi"),
    SendInput("Bearer s3cret", "", "Team", "hi"),
    SendInput("Bearer s3cret", "X@g.us", "Team", Undefined),
    SendInput("Bearer s3cret", "", Undefined, "hi"),
    SendInput("Bearer wrong", "X@g.us", "Team", "hi"),
    SendInput(Undefined, Undefined, "Team", "hi") }

(* error messages, as sequences of tokens; includes() is a search for a   *)
(* contiguous run of tokens                                                *)
ErrMessages ==
  { <<"Session", "closed">>,
    <<"Protocol", "error", ":", "Target", "closed">>,
    <<"Evaluation", "failed">>,
    <<"session", "closed">> }

Includes(msg, phrase) ==
  \E i \in 1..(Len(msg) - Len(phrase) + 1) :
     SubSeq(msg, i, i + Len(phrase) - 1) = phrase

isBrowserError(msg) ==
  \/ Includes(msg, <<"Session", "closed">>)
  \/ Includes(msg, <<"Protocol", "error">>)
  \/ Includes(msg, <<"Target", "closed">>)

(* chat lists getChats may resolve with *)
Chat(g, n, i) == [isGroup |-> g, name |-> n, id |-> i]
ChatLists ==
  { <<>>,
    << Chat(TRUE, "Team ", "TeamSpace@g.us"), Chat(FALSE, "Team", "Team@c.us"),
       Chat(TRUE, "Team", "Team1@g.us"), Chat(TRUE, "Team", "Team2@g.us") >>,
    << Chat(FALSE, "Team", "Team@c.us"), Chat(TRUE, "team", "Lower@g.us") >> }

FindChat(chats, groupName) ==
  LET hits == { i \in 1..Len(chats) : chats[i].name = groupName }
  IN IF hits = {} THEN 0 ELSE CHOOSE i \in hits : \A j \in hits : i <= j

(* chats.find(chat => chat.isGroup && chat.name === groupName): the index *)
(* of the first match, 0 when there is none                                *)
FindGroup(chats, groupName) ==
  LET hits == { i \in 1..Len(chats) : chats[i].isGroup /\ chats[i].name = groupName }
  IN IF hits = {} THEN 0 ELSE CHOOSE i \in hits : \A j \in hits : i <= j

(* line 319: chats.filter(chat => chat.isGroup).map(chat => chat.name) *)
AvailableGroups(chats) ==
  LET F[i \in 0..Len(chats)] ==
        IF i = 0 THEN << >>
        ELSE IF chats[i].isGroup THEN Append(F[i - 1], chats[i].name) ELSE F[i - 1]
  IN F[Len(chats)]

(* a list that was not computed, or a field a response does not have *)
Absent == << Undefined >>

(* line 321: the 404 body is { error: 'Group not found' }, without a list *)
NotFoundGroups(availableGroups) == Absent

VARIABLES
  AUTH_TOKEN,       \* process.env.AUTH_TOKEN
  whatsappReady,
  qrCodePath,       \* Undefined (null) or the path of qr-code.png
  qrFile,           \* TRUE when qr-code.png exists on disk
  qrWrites,         \* qrcode.toFile calls that have not settled
  client,           \* the current client handle
  isRestarting,
  restartAttempts,
  manualRequired,   \* 'Max restart attempts reached' was logged since the last counter reset
  handles,          \* every client handle: none, live, destroying, destroyed
  restarts,         \* executions of restartWhatsAppClient awaiting a client call
  timers,           \* pending setTimeout(restartWhatsAppClient): delay left -> how many
  req,              \* executions of the /send-group-message handler
  shutdowns,        \* executions of gracefulShutdown
  serverCloses,     \* calls of server.close
  exitCode          \* the argument of process.exit, NotExited while the process runs

vars == << AUTH_TOKEN, whatsappReady, qrCodePath, qrFile, qrWrites, client,
           isRestarting, restartAttempts, manualRequired, handles, restarts,
           timers, req, shutdowns, serverCloses, exitCode >>

shutVars == << shutdowns, serverCloses, exitCode >>

(* lines 454-466: the events whose listeners call gracefulShutdown *)
Faults == {"uncaughtException", "unhandledRejection"}
Signals == {"SIGTERM", "SIGINT"} \cup Faults

NotExited == -1

IdleShutdown == [pc |-> "idle", signal |-> Undefined, target |-> NoHandle]

session == << whatsappReady, isRestarting, restartAttempts >>
qrVars == << qrCodePath, qrFile, qrWrites >>

QrPath == "qr-code.png"

IdleRun == [pc |-> "idle", target |-> NoHandle]

IdleReq ==
  [ pc |-> "idle", groupId |-> Undefined, groupName |-> Undefined,
    sendAttempts |-> 0, targetGroupId |-> Undefined, targetGroupName |-> Undefined,
    wait |-> 0, ticked |-> FALSE,
    outcome |-> "none", responses |-> 0,
    attempts |-> 0, willRetry |-> FALSE, bodyRestarting |-> FALSE, bodyAttempts |-> 0,
    chatCalls |-> 0, sendCalls |-> 0, failures |-> 0, scheduled |-> 0,
    fatal |-> FALSE,
    availableGroups |-> Absent,   \* line 319, written to the log on line 320
    bodyGroups |-> Absent ]       \* the group names a response carries

Init ==
  /\ AUTH_TOKEN \in AuthTokens
  /\ whatsappReady = FALSE
  /\ qrCodePath = Undefined
  /\ qrFile = FALSE
  /\ qrWrites = 0
  /\ client = 1
  /\ isRestarting = FALSE
  /\ restartAttempts = 0
  /\ manualRequired = FALSE
  /\ handles = [h \in Handles |-> IF h = 1 THEN "live" ELSE "none"]
  /\ restarts = [i \in RestartRuns |-> IdleRun]
  /\ timers = [d \in Delays |-> 0]
  /\ req = [r \in Requests |-> IdleReq]
  /\ shutdowns = [k \in ShutdownRuns |-> IdleShutdown]
  /\ serverCloses = 0
  /\ exitCode = NotExited


(* ---- helpers on handles, runs and timers ---- *)
Emitting == { h \in Handles : handles[h] \in {"live", "destroying"} }

InFlight == { i \in RestartRuns : restarts[i].pc # "idle" }

IdleRuns == { i \in RestartRuns : restarts[i].pc = "idle" }

(* a handle id for 'new Client(...)': unused, not the current client, not  *)
(* the one whose destroy() just settled and not awaited by another run     *)
FreeHandles(old) ==
  { h \in Handles : /\ handles[h] \in {"none", "destroyed"}
                    /\ h # client
                    /\ h # old
                    /\ \A i \in RestartRuns : restarts[i].target # h
                    /\ \A k \in ShutdownRuns : shutdowns[k].target # h }

Min(S) == CHOOSE x \in S : \A y \in S : x <= y

TimerCount == LET Sum[d \in -1..DISCONNECT_RESTART_DELAY] ==
                    IF d = -1 THEN 0 ELSE timers[d] + Sum[d - 1]
              IN Sum[DISCONNECT_RESTART_DELAY]

(* setTimeout(() => restartWhatsAppClient(), delay) *)
SetRestartTimeout(t, delay) == [t EXCEPT ![delay] = @ + 1]

(* the state of a handle whose destroy() rejected for run i *)
AfterFailedDestroy(i, h) ==
  IF handles[h] = "destroyed" THEN "destroyed"
  ELSE IF \/ \E j \in RestartRuns \ {i} :
               restarts[j].pc = "destroy" /\ restarts[j].target = h
          \/ \E k \in ShutdownRuns :
               shutdowns[k].pc = "destroy" /\ shutdowns[k].target = h
       THEN "destroying"
       ELSE "live"

(* ---- restartWhatsAppClient ---- *)
RestartSkippedNever == FALSE

RestartSkippedOrExhausted == isRestarting \/ restartAttempts >= MAX_RESTART_ATTEMPTS

(* line 174: if (isRestarting) return *)
RestartSkipped == isRestarting

HasClientNever == FALSE

(* line 186: if (client) *)
HasClient == client # NoHandle

(* the synchronous part of restartWhatsAppClient, up to its first await;  *)
(* 'attempts' is restartAttempts as the caller left it                     *)
restartWhatsAppClient(attempts) ==
  IF RestartSkipped
  THEN /\ isRestarting' = isRestarting
       /\ restartAttempts' = attempts
       /\ UNCHANGED << client, handles, restarts >>
  ELSE /\ IdleRuns # {}
       /\ isRestarting' = TRUE
       /\ restartAttempts' = attempts + 1
       /\ IF HasClient
          THEN /\ handles' = [handles EXCEPT ![client] = "destroying"]
               /\ restarts' = [restarts EXCEPT ![Min(IdleRuns)] =
                                 [pc |-> "destroy", target |-> client]]
               /\ client' = client
          ELSE /\ FreeHandles(NoHandle) # {}
               /\ LET h == Min(FreeHandles(NoHandle))
                  IN /\ handles' = [handles EXCEPT ![h] = "live"]
                     /\ client' = h
                     /\ restarts' = [restarts EXCEPT ![Min(IdleRuns)] =
                                       [pc |-> "initialize", target |-> h]]

(* catch (lines 195-200) and finally (line 202) of run i *)
RestartCaught(i) ==
  /\ manualRequired' = (manualRequired \/ restartAttempts >= MAX_RESTART_ATTEMPTS)
  /\ isRestarting' = FALSE
  /\ restarts' = [restarts EXCEPT ![i] = IdleRun]

(* await client.destroy() settles; on success the replacement is built    *)
(* and its initialize() called                                             *)
DestroySettled(i, ok) ==
  /\ restarts[i].pc = "destroy"
  /\ LET old == restarts[i].target
     IN IF ok
        THEN /\ FreeHandles(old) # {}
             /\ LET h == Min(FreeHandles(old))
                IN /\ handles' = [handles EXCEPT ![old] = "destroyed", ![h] = "live"]
                   /\ client' = h
                   /\ restarts' = [restarts EXCEPT ![i] =
                                     [pc |-> "initialize", target |-> h]]
             /\ UNCHANGED << isRestarting, manualRequired >>
        ELSE /\ handles' = [handles EXCEPT ![old] = AfterFailedDestroy(i, old)]
             /\ RestartCaught(i)
             /\ client' = client
  /\ UNCHANGED << AUTH_TOKEN, shutVars, whatsappReady, qrVars, restartAttempts, timers, req >>

(* await client.initialize() settles *)
InitializeSettled(i, ok) ==
  /\ restarts[i].pc = "initialize"
  /\ IF ok
     THEN /\ isRestarting' = FALSE
          /\ restarts' = [restarts EXCEPT ![i] = IdleRun]
          /\ manualRequired' = manualRequired
     ELSE RestartCaught(i)
  /\ UNCHANGED << AUTH_TOKEN, shutVars, whatsappReady, qrVars, client, restartAttempts,
                  handles, timers, req >>

(* ---- client events (createWhatsAppClient) ---- *)
(* 'qr': line 131 runs, then qrcode.toFile is awaited *)
OnQr ==
  /\ Emitting # {}
  /\ qrWrites < MaxQrWrites
  /\ qrCodePath' = QrPath
  /\ qrWrites' = qrWrites + 1
  /\ UNCHANGED << AUTH_TOKEN, shutVars, whatsappReady, qrFile, client, isRestarting,
                  restartAttempts, manualRequired, handles, restarts, timers, req >>

(* qrcode.toFile settles: the file is written, or the error is logged *)
QrWriteSettled(ok) ==
  /\ qrWrites > 0
  /\ qrWrites' = qrWrites - 1
  /\ qrFile' = (qrFile \/ ok)
  /\ UNCHANGED << AUTH_TOKEN, shutVars, whatsappReady, qrCodePath, client, isRestarting,
                  restartAttempts, manualRequired, handles, restarts, timers, req >>

OnReady ==
  /\ Emitting # {}
  /\ whatsappReady' = TRUE
  /\ restartAttempts' = 0
  /\ manualRequired' = FALSE
  /\ IF Truthy(qrCodePath) /\ qrFile
     THEN qrFile' = FALSE /\ qrCodePath' = Undefined
     ELSE UNCHANGED << qrFile, qrCodePath >>
  /\ UNCHANGED << AUTH_TOKEN, shutVars, qrWrites, client, isRestarting, handles, restarts,
                  timers, req >>

QrPathKeptOnDisconnect == qrCodePath

(* line 154: qrCodePath = null *)
QrPathAfterDisconnect == Undefined

DisconnectRestartsUnlessExhausted == restartAttempts < MAX_RESTART_ATTEMPTS

(* line 157: if (!isRestarting && restartAttempts < MAX_RESTART_ATTEMPTS) *)
DisconnectMayRestart == ~isRestarting /\ restartAttempts < MAX_RESTART_ATTEMPTS

OnDisconnected ==
  /\ Emitting # {}
  /\ whatsappReady' = FALSE
  /\ qrCodePath' = QrPathAfterDisconnect
  /\ IF DisconnectMayRestart
     THEN /\ TimerCount < MaxTimers
          /\ timers' = SetRestartTimeout(timers, DISCONNECT_RESTART_DELAY)
     ELSE timers' = timers
  /\ UNCHANGED << AUTH_TOKEN, shutVars, qrFile, qrWrites, client, isRestarting, restartAttempts,
                  manualRequired, handles, restarts, req >>

RestartScheduledOnAuthFailure == SetRestartTimeout(timers, DISCONNECT_RESTART_DELAY)

(* lines 164-167: the 'auth_failure' callback calls no setTimeout *)
TimersAfterAuthFailure == timers

OnAuthFailure ==
  /\ Emitting # {}
  /\ whatsappReady' = FALSE
  /\ timers' = TimersAfterAuthFailure
  /\ UNCHANGED << AUTH_TOKEN, shutVars, qrVars, client, isRestarting, restartAttempts,
                  manualRequired, handles, restarts, req >>

(* ---- timers and time ---- *)
(* a due restart timer runs its callback *)
TimerFired ==
  /\ timers[0] > 0
  /\ timers' = [timers EXCEPT ![0] = @ - 1]
  /\ restartWhatsAppClient(restartAttempts)
  /\ UNCHANGED << AUTH_TOKEN, shutVars, whatsappReady, qrVars, manualRequired, req >>

(* one time unit passes *)
Tick ==
  /\ \/ \E d \in Delays \ {0} : timers[d] > 0
     \/ \E r \in Requests : req[r].pc = "delay" /\ ~req[r].ticked
  /\ timers' = [d \in Delays |->
                  IF d = 0 THEN timers[0] + timers[1]
                  ELSE IF d = DISCONNECT_RESTART_DELAY THEN 0
                  ELSE timers[d + 1]]
  /\ req' = [r \in Requests |->
               IF req[r].pc = "delay"
               THEN [req[r] EXCEPT !.wait = IF @ > 0 THEN @ - 1 ELSE 0,
                                   !.ticked = TRUE]
               ELSE req[r]]
  /\ UNCHANGED << AUTH_TOKEN, shutVars, whatsappReady, qrVars, client, isRestarting,
                  restartAttempts, manualRequired, handles, restarts >>


(* ---- POST /send-group-message ---- *)
NotReadyUnlessRestarting == ~whatsappReady /\ ~isRestarting

(* line 273: if (!whatsappReady) *)
NotReady == ~whatsappReady

(* line 277 *)
NotReadyMayRestart == ~isRestarting /\ restartAttempts < MAX_RESTART_ATTEMPTS

BrowserErrorAlwaysRestarts == TRUE

(* line 361 *)
BrowserErrorMayRestart == ~isRestarting /\ restartAttempts < MAX_RESTART_ATTEMPTS

ByGroupIdUnlessNamed(groupId, groupName) == Truthy(groupId) /\ ~Truthy(groupName)

(* line 301: if (groupId) *)
ByGroupId(groupId, groupName) == Truthy(groupId)

SessionLostReturnsOnLast(n) == n >= MAX_SEND_RETRIES

(* line 367 *)
SessionLostReturns(n) == n >= MAX_SEND_RETRIES \/ n = 1

WillRetryUnlessRestarting == ~isRestarting /\ restartAttempts < MAX_RESTART_ATTEMPTS

(* line 373: willRetry *)
WillRetry == restartAttempts < MAX_RESTART_ATTEMPTS

RetriesExhaustedLate(n) == n > MAX_SEND_RETRIES

(* line 382 *)
RetriesExhausted(n) == n >= MAX_SEND_RETRIES

AttemptsReportedAsLimit(n) == MAX_SEND_RETRIES

(* line 339: attempts: sendAttempts *)
AttemptsReported(n) == n

NoRetryDelay == SEND_RETRY_DELAY - 1

(* line 393: the setTimeout of the retry spacing *)
RetryDelay == SEND_RETRY_DELAY

(* res.status(..).json(..): the handler returns with this outcome *)
Respond(q, outcome) ==
  [q EXCEPT !.pc = "done", !.outcome = outcome, !.responses = @ + 1]

StatusOf(outcome) ==
  CASE outcome = "Success" -> 200
    [] outcome = "BadRequest" -> 400
    [] outcome = "Unauthorized" -> 403
    [] outcome = "NotFound" -> 404
    [] outcome = "SendFailed" -> 500
    [] outcome \in {"NotReady", "SessionLost"} -> 503
    [] OTHER -> 0

(* lines 294-330: one pass of the retry loop up to its first client call *)
BeginAttempt(q) ==
  LET q1 == [q EXCEPT !.sendAttempts = @ + 1, !.wait = 0, !.ticked = FALSE]
  IN IF ByGroupId(q.groupId, q.groupName)
     THEN [q1 EXCEPT !.targetGroupId = q.groupId,
                     !.targetGroupName = IF Truthy(q.groupName) THEN q.groupName
                                         ELSE "Unknown",
                     !.pc = "sendMessage",
                     !.sendCalls = @ + 1]
     ELSE [q1 EXCEPT !.pc = "getChats", !.chatCalls = @ + 1]

(* the request arrives: lines 243-296 *)
ReceiveSend(r, header, groupId, groupName, message) ==
  /\ req[r].pc \in {"idle", "done"}
  /\ LET q0 == [IdleReq EXCEPT !.groupId = groupId, !.groupName = groupName]
     IN IF AuthRejected(AUTH_TOKEN, header)
        THEN /\ req' = [req EXCEPT ![r] = Respond(IdleReq, "Unauthorized")]
             /\ UNCHANGED << session, client, handles, restarts >>
        ELSE IF (~Truthy(groupName) /\ ~Truthy(groupId)) \/ ~Truthy(message)
        THEN /\ req' = [req EXCEPT ![r] = Respond(IdleReq, "BadRequest")]
             /\ UNCHANGED << session, client, handles, restarts >>
        ELSE IF NotReady
        THEN /\ IF NotReadyMayRestart
                THEN restartWhatsAppClient(restartAttempts)
                ELSE UNCHANGED << isRestarting, restartAttempts, client, handles, restarts >>
             /\ req' = [req EXCEPT ![r] =
                          [Respond(IdleReq, "NotReady") EXCEPT !.bodyRestarting = isRestarting',
                                                          !.bodyAttempts = restartAttempts']]
             /\ whatsappReady' = whatsappReady
        ELSE /\ req' = [req EXCEPT ![r] = BeginAttempt(q0)]
             /\ UNCHANGED << session, client, handles, restarts >>
  /\ UNCHANGED << AUTH_TOKEN, shutVars, qrVars, manualRequired, timers >>

(* catch block, lines 342-394, for the error message e *)
Catch(r, e) ==
  LET q == [req[r] EXCEPT !.fatal = isBrowserError(e), !.failures = @ + 1]
      n == q.sendAttempts
  IN IF isBrowserError(e)
     THEN /\ whatsappReady' = FALSE
          /\ IF BrowserErrorMayRestart
             THEN /\ TimerCount < MaxTimers
                  /\ timers' = SetRestartTimeout(timers, BROWSER_ERROR_RESTART_DELAY)
             ELSE timers' = timers
          /\ LET q2 == [q EXCEPT !.scheduled = IF BrowserErrorMayRestart THEN @ + 1 ELSE @]
             IN IF SessionLostReturns(n)
                THEN req' = [req EXCEPT ![r] =
                               [Respond(q2, "SessionLost") EXCEPT !.willRetry = WillRetry]]
                ELSE req' = [req EXCEPT ![r] = [q2 EXCEPT !.pc = "done"]]
     ELSE /\ UNCHANGED << whatsappReady, timers >>
          /\ IF RetriesExhausted(n)
             THEN req' = [req EXCEPT ![r] =
                            [Respond(q, "SendFailed") EXCEPT !.attempts = n]]
             ELSE req' = [req EXCEPT ![r] =
                            [q EXCEPT !.pc = "delay", !.wait = RetryDelay, !.ticked = FALSE]]

(* await client.getChats() resolves with a chat list: lines 312-330 *)
ChatsResolved(r, chats) ==
  /\ req[r].pc = "getChats"
  /\ LET g == FindGroup(chats, req[r].groupName)
     IN IF g = 0
        THEN req' = [req EXCEPT ![r] =
                       [Respond(@, "NotFound") EXCEPT
                          !.availableGroups = AvailableGroups(chats),
                          !.bodyGroups = NotFoundGroups(AvailableGroups(chats))]]
        ELSE req' = [req EXCEPT ![r] =
                       [@ EXCEPT !.targetGroupId = chats[g].id,
                                 !.targetGroupName = chats[g].name,
                                 !.pc = "sendMessage",
                                 !.sendCalls = @ + 1]]
  /\ UNCHANGED << AUTH_TOKEN, shutVars, session, qrVars, client, manualRequired, handles,
                  restarts, timers >>

(* await client.getChats() rejects *)
ChatsRejected(r, e) ==
  /\ req[r].pc = "getChats"
  /\ Catch(r, e)
  /\ UNCHANGED << AUTH_TOKEN, shutVars, isRestarting, restartAttempts, qrVars, client,
                  manualRequired, handles, restarts >>

(* await client.sendMessage() resolves: lines 332-340 *)
SendResolved(r) ==
  /\ req[r].pc = "sendMessage"
  /\ req' = [req EXCEPT ![r] =
               [Respond(@, "Success") EXCEPT !.attempts = AttemptsReported(req[r].sendAttempts)]]
  /\ UNCHANGED << AUTH_TOKEN, shutVars, session, qrVars, client, manualRequired, handles,
                  restarts, timers >>

(* await client.sendMessage() rejects *)
SendRejected(r, e) ==
  /\ req[r].pc = "sendMessage"
  /\ Catch(r, e)
  /\ UNCHANGED << AUTH_TOKEN, shutVars, isRestarting, restartAttempts, qrVars, client,
                  manualRequired, handles, restarts >>

(* the retry delay is over: the loop condition of line 294 is evaluated *)
RetryDue(r) ==
  /\ req[r].pc = "delay"
  /\ req[r].wait = 0
  /\ IF req[r].sendAttempts < MAX_SEND_RETRIES
     THEN req' = [req EXCEPT ![r] = BeginAttempt(@)]
     ELSE req' = [req EXCEPT ![r] = [@ EXCEPT !.pc = "done"]]
  /\ UNCHANGED << AUTH_TOKEN, shutVars, session, qrVars, client, manualRequired, handles,
                  restarts, timers >>

(* ---- GET /qr: lines 211-219 ---- *)
(* the response is the pairing image file *)
QrRetrievable == ~whatsappReady /\ Truthy(qrCodePath) /\ qrFile

(* ---- POST /restart: lines 399-413 ---- *)
RestartInProgressNever == FALSE

(* line 404: if (isRestarting) *)
RestartInProgress == isRestarting

NoManualReset == restartAttempts

(* line 408: restartAttempts = 0 *)
ManualReset == 0

(* the response to a POST /restart received in the current state: the     *)
(* error of the 403 body or the message of the 200 body                    *)
RestartReply(header) ==
  IF AuthRejected(AUTH_TOKEN, header) THEN "Unauthorized"
  ELSE IF RestartInProgress THEN "Restart already in progress"
  ELSE "WhatsApp client restart initiated"

PostRestart(header) ==
  /\ IF RestartReply(header) # "WhatsApp client restart initiated"
     THEN UNCHANGED << isRestarting, restartAttempts, client, handles, restarts,
                       manualRequired >>
     ELSE /\ restartWhatsAppClient(ManualReset)
          /\ manualRequired' = FALSE
  /\ UNCHANGED << AUTH_TOKEN, shutVars, whatsappReady, qrVars, timers, req >>

(* ---- gracefulShutdown: lines 422-466 ---- *)
Running == exitCode = NotExited

(* line 445: process.exit(0) when no step of the sequence threw *)
ExitAfterShutdown == 0

(* line 448: process.exit(1) from the catch block *)
ExitAfterError == 1

(* a signal or a fault arrives: lines 423-441, up to await client.destroy() *)
gracefulShutdown(signal) ==
  /\ Running
  /\ \E k \in ShutdownRuns :
       /\ shutdowns[k].pc = "idle"
       /\ \A j \in ShutdownRuns : j < k => shutdowns[j].pc # "idle"
       /\ serverCloses' = serverCloses + 1
       /\ qrFile' = IF Truthy(qrCodePath) /\ qrFile THEN FALSE ELSE qrFile
       /\ IF HasClient
          THEN /\ shutdowns' = [shutdowns EXCEPT ![k] =
                                  [pc |-> "destroy", signal |-> signal, target |-> client]]
               /\ handles' = [handles EXCEPT ![client] =
                                IF @ = "destroyed" THEN @ ELSE "destroying"]
               /\ exitCode' = exitCode
          ELSE /\ shutdowns' = [shutdowns EXCEPT ![k] =
                                  [pc |-> "exited", signal |-> signal, target |-> NoHandle]]
               /\ handles' = handles
               /\ exitCode' = ExitAfterShutdown
  /\ UNCHANGED << AUTH_TOKEN, whatsappReady, qrCodePath, qrWrites, client, isRestarting,
                  restartAttempts, manualRequired, restarts, timers, req >>

(* await client.destroy() of line 440 settles: lines 441-449 *)
ShutdownDestroySettled(k, ok) ==
  /\ Running
  /\ shutdowns[k].pc = "destroy"
  /\ shutdowns' = [shutdowns EXCEPT ![k].pc = "exited"]
  /\ exitCode' = IF ok THEN ExitAfterShutdown ELSE ExitAfterError
  /\ handles' = IF ok THEN [handles EXCEPT ![shutdowns[k].target] = "destroyed"]
                ELSE handles
  /\ UNCHANGED << AUTH_TOKEN, whatsappReady, qrVars, client, isRestarting,
                  restartAttempts, manualRequired, restarts, timers, req, serverCloses >>

Shutdown ==
  \/ \E signal \in Signals : gracefulShutdown(signal)
  \/ \E k \in ShutdownRuns, ok \in BOOLEAN : ShutdownDestroySettled(k, ok)

(* every callback but the pairing-image ones *)
Lifecycle ==
  \/ \E i \in RestartRuns, ok \in BOOLEAN : DestroySettled(i, ok)
  \/ \E i \in RestartRuns, ok \in BOOLEAN : InitializeSettled(i, ok)
  \/ OnReady
  \/ OnDisconnected
  \/ OnAuthFailure
  \/ TimerFired
  \/ Tick
  \/ \E header \in AuthHeaders : PostRestart(header)

Dispatch ==
  \/ \E r \in Requests, inp \in SendInputs :
        ReceiveSend(r, inp.header, inp.groupId, inp.groupName, inp.message)
  \/ \E r \in Requests, chats \in ChatLists : ChatsResolved(r, chats)
  \/ \E r \in Requests, e \in ErrMessages : ChatsRejected(r, e)
  \/ \E r \in Requests : SendResolved(r)
  \/ \E r \in Requests, e \in ErrMessages : SendRejected(r, e)
  \/ \E r \in Requests : RetryDue(r)

Pairing ==
  \/ OnQr
  \/ \E ok \in BOOLEAN : QrWriteSettled(ok)

(* The pairing image is written and read by the 'qr', 'ready' and          *)
(* 'disconnected' callbacks only, and no dispatch step reads it: the       *)
(* lifecycle is checked with the dispatcher (Spec) and with the pairing    *)
(* image (SpecPairing).                                                    *)
Next == Lifecycle \/ Dispatch

NextPairing == Lifecycle \/ Pairing

Spec == Init /\ [][Next]_vars

SpecPairing == Init /\ [][NextPairing]_vars

(* the process with its signal and fault listeners: no callback runs      *)
(* after process.exit                                                      *)
NextShutdown == Shutdown \/ (Running /\ (Lifecycle \/ Pairing))

SpecShutdown == Init /\ [][NextShutdown]_vars

(* time passes and a due timer callback is run by the event loop; nothing *)
(* makes a pending destroy(), initialize() or toFile() promise settle      *)
SpecPairingFair == SpecPairing /\ WF_vars(Tick) /\ WF_vars(TimerFired)


(* ======================= properties ======================= *)
Exhausted == manualRequired /\ restartAttempts >= MAX_RESTART_ATTEMPTS

DispatchOutcomes == {"Success", "NotReady", "NotFound", "SessionLost", "SendFailed"}
FacadeRejections == {"BadRequest", "Unauthorized"}

ValidRequest(groupId, groupName, message) ==
  (Truthy(groupName) \/ Truthy(groupId)) /\ Truthy(message)

(* r's handler returns a response in this step *)
Responds(r, outcome) ==
  /\ req[r].pc \in {"getChats", "sendMessage"}
  /\ req'[r].pc = "done"
  /\ req'[r].outcome = outcome

OneInFlight == Cardinality(InFlight) <= 1

(* C1: at most one execution of restartWhatsAppClient is between its       *)
(* 'isRestarting = true' and its finally block, and a restart timer that   *)
(* fires while isRestarting is true leaves the client handle, the handles, *)
(* the running restart and the attempt counter as they are.                *)
C1_SingleRestartInFlight ==
  /\ OneInFlight
  /\ [][/\ OneInFlight'
        /\ (isRestarting /\ timers'[0] < timers[0])
             => UNCHANGED << client, handles, restarts, restartAttempts, isRestarting >>]_vars

C1_Witness ==
  /\ isRestarting
  /\ Cardinality(InFlight) = 1
  /\ timers[0] > 0
  /\ restartAttempts = 2

(* C2: restartAttempts never exceeds MAX_RESTART_ATTEMPTS. *)
C2_AttemptsBounded == restartAttempts <= MAX_RESTART_ATTEMPTS

(* C3: once the attempt that brought restartAttempts to                    *)
(* MAX_RESTART_ATTEMPTS has failed, a restart begins only through the      *)
(* manual POST /restart, which leaves the counter at 1.                    *)
C3_NoAutoRestartWhenExhausted ==
  [][(Exhausted /\ ~isRestarting /\ isRestarting') => restartAttempts' = 1]_vars

(* C4: a handler of /send-group-message never sends two responses, and    *)
(* when it has returned it has sent exactly one, with one of the five      *)
(* dispatch outcomes (or a rejection of the facade, 400 or 403).           *)
C4_ExactlyOneOutcome ==
  \A r \in Requests :
    /\ req[r].responses <= 1
    /\ req[r].pc = "done" =>
         /\ req[r].responses = 1
         /\ req[r].outcome \in DispatchOutcomes \cup FacadeRejections
         /\ StatusOf(req[r].outcome) \in {200, 400, 403, 404, 500, 503}
    /\ req[r].pc # "done" => req[r].responses = 0

C4_Witness ==
  \E r \in Requests :
    /\ req[r].pc = "done"
    /\ req[r].outcome = "SessionLost"
    /\ req[r].sendAttempts = MAX_SEND_RETRIES
    /\ req[r].responses = 1

(* C5: in the step that answers a session-fatal error, whatsappReady is   *)
(* false afterwards and the call has set at most one restart timer, and    *)
(* none when a restart is in flight or the attempt budget is used up.      *)
C5_SessionFatalMarksNotReady ==
  [][\A r \in Requests :
       Responds(r, "SessionLost") =>
         /\ ~whatsappReady'
         /\ req'[r].scheduled <= 1
         /\ TimerCount' = TimerCount + req'[r].scheduled
         /\ (isRestarting \/ restartAttempts >= MAX_RESTART_ATTEMPTS)
              => (req'[r].scheduled = 0 /\ timers' = timers)]_vars

C5_Witness ==
  \E r \in Requests :
    /\ req[r].outcome = "SessionLost"
    /\ req[r].scheduled = 1
    /\ timers[BROWSER_ERROR_RESTART_DELAY] = 1
    /\ ~whatsappReady

FatalEndsDispatch ==
  \A r \in Requests :
    req[r].fatal => (req[r].pc = "done" /\ req[r].outcome = "SessionLost")

(* C6: a session-fatal error ends the dispatch with SessionLost: the      *)
(* request makes no getChats or sendMessage call afterwards, and willRetry *)
(* is restartAttempts < MAX_RESTART_ATTEMPTS as of the response.           *)
C6_SessionFatalAborts ==
  /\ FatalEndsDispatch
  /\ [][/\ FatalEndsDispatch'
        /\ \A r \in Requests :
             /\ Responds(r, "SessionLost")
                  => (req'[r].willRetry <=> restartAttempts' < MAX_RESTART_ATTEMPTS)
             /\ (req[r].fatal /\ req'[r].fatal)
                  => /\ req'[r].chatCalls = req[r].chatCalls
                     /\ req'[r].sendCalls = req[r].sendCalls]_vars

C6_Witness ==
  \E r \in Requests :
    /\ req[r].fatal
    /\ req[r].outcome = "SessionLost"
    /\ req[r].sendAttempts = 1
    /\ ~req[r].willRetry
    /\ isRestarting

(* C7: a successful dispatch reports as attempts the number of passes of  *)
(* the retry loop it made, between 1 and MAX_SEND_RETRIES: one more than   *)
(* the client calls of it that failed, the number of its sendMessage calls *)
(* when groupId is given and of its getChats calls otherwise.              *)
C7_AttemptsReported ==
  \A r \in Requests :
    req[r].outcome = "Success" =>
      /\ req[r].attempts \in 1..MAX_SEND_RETRIES
      /\ req[r].attempts = req[r].failures + 1
      /\ Truthy(req[r].groupId) => req[r].attempts = req[r].sendCalls
      /\ ~Truthy(req[r].groupId) => req[r].attempts = req[r].chatCalls

C7_Witness ==
  \E r \in Requests :
    /\ req[r].outcome = "Success"
    /\ req[r].attempts = 2
    /\ req[r].failures = 1
    /\ req[r].sendCalls = 2

BoundedAttempts ==
  \A r \in Requests :
    /\ req[r].sendCalls <= MAX_SEND_RETRIES
    /\ req[r].sendAttempts <= MAX_SEND_RETRIES
    /\ (req[r].pc = "done" /\ ~req[r].fatal /\ req[r].failures = MAX_SEND_RETRIES)
         => (req[r].outcome = "SendFailed" /\ req[r].attempts = MAX_SEND_RETRIES)

(* C8: a dispatch makes at most MAX_SEND_RETRIES sendMessage calls; the   *)
(* attempt after a transient failure starts only once a time unit has      *)
(* passed; when every attempt failed transiently the outcome is SendFailed *)
(* with attempts = 2; and no step of a dispatch that met no session-fatal  *)
(* error and was not answered NotReady changes whatsappReady, isRestarting *)
(* or restartAttempts.                                                     *)
C8_TransientRetries ==
  /\ BoundedAttempts
  /\ [][/\ BoundedAttempts'
        /\ \A r \in Requests :
             /\ (req[r].pc = "delay" /\ req'[r].pc # "delay") => req[r].ticked
             /\ (req'[r] # req[r] /\ ~req'[r].fatal /\ req'[r].outcome # "NotReady")
                  => UNCHANGED session]_vars

C8_Witness ==
  \E r \in Requests :
    /\ req[r].outcome = "SendFailed"
    /\ req[r].attempts = 2
    /\ req[r].sendCalls = 2
    /\ req[r].failures = 2

(* C9 as stated: a valid, authorized request arriving while whatsappReady *)
(* is false is answered NotReady without a client call, a restart begins   *)
(* whenever none is in flight, and the body carries isRestarting and       *)
(* restartAttempts as of the response.                                     *)
C9_Original ==
  [][\A r \in Requests, inp \in SendInputs :
       ( /\ ~whatsappReady
         /\ ~AuthRejected(AUTH_TOKEN, inp.header)
         /\ ValidRequest(inp.groupId, inp.groupName, inp.message)
         /\ ReceiveSend(r, inp.header, inp.groupId, inp.groupName, inp.message) )
       => /\ req'[r].pc = "done" /\ req'[r].outcome = "NotReady"
          /\ req'[r].chatCalls = 0 /\ req'[r].sendCalls = 0
          /\ ~isRestarting => (isRestarting' /\ InFlight' # {})
          /\ req'[r].bodyRestarting = isRestarting'
          /\ req'[r].bodyAttempts = restartAttempts']_vars

(* C9 as amended: the restart begins exactly when none is in flight and   *)
(* restartAttempts < MAX_RESTART_ATTEMPTS; otherwise the request leaves    *)
(* the session state and the client handle as they are.                    *)
C9_NotReady ==
  [][\A r \in Requests, inp \in SendInputs :
       ( /\ ~whatsappReady
         /\ ~AuthRejected(AUTH_TOKEN, inp.header)
         /\ ValidRequest(inp.groupId, inp.groupName, inp.message)
         /\ ReceiveSend(r, inp.header, inp.groupId, inp.groupName, inp.message) )
       => /\ req'[r].pc = "done" /\ req'[r].outcome = "NotReady"
          /\ req'[r].chatCalls = 0 /\ req'[r].sendCalls = 0
          /\ IF ~isRestarting /\ restartAttempts < MAX_RESTART_ATTEMPTS
             THEN /\ isRestarting' /\ Cardinality(InFlight') = 1
                  /\ restartAttempts' = restartAttempts + 1
                  /\ handles'[client] = "destroying"
             ELSE UNCHANGED << isRestarting, restartAttempts, client, handles, restarts >>
          /\ req'[r].bodyRestarting = isRestarting'
          /\ req'[r].bodyAttempts = restartAttempts'
          /\ whatsappReady' = whatsappReady]_vars

C9_Witness ==
  \E r \in Requests :
    /\ req[r].outcome = "NotReady"
    /\ req[r].bodyRestarting
    /\ req[r].bodyAttempts = 1
    /\ isRestarting
    /\ restartAttempts = 1
    /\ handles[client] = "destroying"

(* C10: a dispatch whose request carries a groupId never calls getChats,  *)
(* sends to that groupId, and reports groupName (or 'Unknown') as name.    *)
C10_GroupIdSkipsLookup ==
  \A r \in Requests :
    Truthy(req[r].groupId) =>
      /\ req[r].chatCalls = 0
      /\ req[r].sendCalls > 0 => req[r].targetGroupId = req[r].groupId
      /\ req[r].outcome = "Success" =>
           req[r].targetGroupName =
             (IF Truthy(req[r].groupName) THEN req[r].groupName ELSE "Unknown")

C10_Witness ==
  \E r \in Requests :
    /\ req[r].groupId = "X@g.us"
    /\ req[r].groupName = "Team"
    /\ req[r].outcome = "Success"
    /\ req[r].sendCalls = 2
    /\ req[r].targetGroupId = "X@g.us"


(* the names of the group chats of a chat list, in the order of the list *)
GroupIndexes(chats) == { i \in 1..Len(chats) : chats[i].isGroup }

EnumeratesGroups(names, chats) ==
  /\ Len(names) = Cardinality(GroupIndexes(chats))
  /\ \A i \in GroupIndexes(chats) :
       names[Cardinality({ j \in GroupIndexes(chats) : j <= i })] = chats[i].name

NoExactGroup(chats, groupName) ==
  \A i \in 1..Len(chats) : ~(chats[i].isGroup /\ chats[i].name = groupName)

(* C11: when getChats resolves with a list that has no group    *)
(* chat named groupName, the request is answered NotFound, the lookup is   *)
(* followed by no sendMessage call, and the response enumerates the names  *)
(* of the group chats of the list.                                         *)
C11_Original ==
  [][\A r \in Requests, chats \in ChatLists :
       ( /\ req[r].pc = "getChats"
         /\ NoExactGroup(chats, req[r].groupName)
         /\ ChatsResolved(r, chats) )
       => /\ req'[r].pc = "done" /\ req'[r].outcome = "NotFound"
          /\ req'[r].sendCalls = req[r].sendCalls
          /\ EnumeratesGroups(req'[r].bodyGroups, chats)]_vars

(* C12: when getChats resolves, the target of the send is the first chat  *)
(* of the list that is a group and whose name equals groupName exactly; a  *)
(* chat that is no group, or a group whose name differs by case or by a    *)
(* trailing space, is never the target.                                    *)
C12_ExactFirstMatch ==
  [][\A r \in Requests, chats \in ChatLists :
       ( /\ req[r].pc = "getChats"
         /\ ~NoExactGroup(chats, req[r].groupName)
         /\ ChatsResolved(r, chats) )
       => /\ req'[r].pc = "sendMessage"
          /\ req'[r].sendCalls = req[r].sendCalls + 1
          /\ req'[r].targetGroupName = req[r].groupName
          /\ \E i \in 1..Len(chats) :
               /\ chats[i].isGroup
               /\ chats[i].name = req[r].groupName
               /\ chats[i].id = req'[r].targetGroupId
               /\ \A j \in 1..(i - 1) :
                    ~(chats[j].isGroup /\ chats[j].name = req[r].groupName)
          /\ req'[r].targetGroupId
               \notin {"TeamSpace@g.us", "Team@c.us", "Team2@g.us", "Lower@g.us"}]_vars

C12_Witness ==
  \E r \in Requests :
    /\ req[r].groupName = "Team"
    /\ ~Truthy(req[r].groupId)
    /\ req[r].outcome = "Success"
    /\ req[r].targetGroupId = "Team1@g.us"
    /\ req[r].targetGroupName = "Team"


(* the header passes the test of lines 254 and 401 *)
Authorized(header) == AUTH_TOKEN = Undefined \/ header = "Bearer s3cret"

(* C14: a POST /restart received while isRestarting is answered 'Restart  *)
(* already in progress' and changes nothing: restartAttempts, the client   *)
(* handle, whatsappReady and isRestarting (and the rest of the state) are  *)
(* as before, so any number of such calls has the effect of none.          *)
C14_RestartWhileRestarting ==
  [][\A header \in AuthHeaders :
       ( /\ isRestarting
         /\ Authorized(header)
         /\ PostRestart(header) )
       => /\ RestartReply(header) = "Restart already in progress"
          /\ UNCHANGED vars]_vars

C14_Witness ==
  /\ isRestarting
  /\ restartAttempts = 2
  /\ \E i \in RestartRuns : restarts[i].pc = "initialize"
  /\ \E header \in AuthHeaders :
       Authorized(header) /\ RestartReply(header) = "Restart already in progress"

(* C15: an authorized POST /restart received while isRestarting is false, *)
(* in any state, the exhausted one included, begins a restart with a fresh *)
(* budget: when it returns isRestarting is true, restartAttempts is 1, one *)
(* restart is in flight and the automatic triggers are enabled again.      *)
C15_ManualRestartResets ==
  [][\A header \in AuthHeaders :
       ( /\ ~isRestarting
         /\ Authorized(header)
         /\ PostRestart(header) )
       => /\ RestartReply(header) = "WhatsApp client restart initiated"
          /\ isRestarting'
          /\ restartAttempts' = 1
          /\ Cardinality(InFlight') = 1
          /\ ~Exhausted'
          /\ restartAttempts' < MAX_RESTART_ATTEMPTS]_vars

C15_Witness ==
  /\ isRestarting
  /\ restartAttempts = 1
  /\ ~manualRequired
  /\ \E r \in Requests :
       /\ req[r].outcome = "NotReady"
       /\ ~req[r].bodyRestarting
       /\ req[r].bodyAttempts >= MAX_RESTART_ATTEMPTS

(* C16: with a token configured, a send or restart request whose          *)
(* Authorization header is not exactly 'Bearer <token>' is answered 403    *)
(* and has no effect: no getChats, sendMessage, destroy or restart, and    *)
(* the session state, the handles and the timers are as before, also when  *)
(* the client is not ready; the same holds of an authorized send that is   *)
(* rejected 400 for its body.                                              *)
C16_RejectedHasNoEffect ==
  [][/\ \A header \in AuthHeaders :
          ( /\ AUTH_TOKEN = "s3cret"
            /\ header # "Bearer s3cret"
            /\ PostRestart(header) )
          => /\ RestartReply(header) = "Unauthorized"
             /\ UNCHANGED vars
     /\ \A r \in Requests, inp \in SendInputs :
          ( /\ req[r].pc \in {"idle", "done"}
            /\ \/ AUTH_TOKEN = "s3cret" /\ inp.header # "Bearer s3cret"
               \/ ~ValidRequest(inp.groupId, inp.groupName, inp.message)
            /\ ReceiveSend(r, inp.header, inp.groupId, inp.groupName, inp.message) )
          => /\ req'[r].pc = "done"
             /\ req'[r].responses = 1
             /\ IF AUTH_TOKEN = "s3cret" /\ inp.header # "Bearer s3cret"
                THEN req'[r].outcome = "Unauthorized"
                ELSE req'[r].outcome = "BadRequest"
             /\ req'[r].chatCalls = 0 /\ req'[r].sendCalls = 0
             /\ UNCHANGED << AUTH_TOKEN, shutVars, session, qrVars, client, manualRequired,
                             handles, restarts, timers >>]_vars

C16_Witness ==
  /\ AUTH_TOKEN = "s3cret"
  /\ ~whatsappReady
  /\ ~isRestarting
  /\ restartAttempts = 0
  /\ \E r \in Requests :
       /\ req[r].outcome = "Unauthorized"
       /\ req[r].chatCalls = 0 /\ req[r].sendCalls = 0


(* the handles that were constructed and whose destroy() has not resolved *)
Undestroyed == { h \in Handles : handles[h] \in {"live", "destroying"} }

OneLiveHandle == Cardinality(Undestroyed) <= 1 /\ Undestroyed \subseteq {client}

(* C19: in every reachable state at most one client handle is live, and   *)
(* it is the one the client variable names; a handle is constructed only   *)
(* in the step in which the destroy() of the previous handle settles, and  *)
(* the client variable then names the new handle while the previous one    *)
(* stays destroyed.                                                        *)
C19_OneLiveHandle ==
  /\ OneLiveHandle
  /\ [][/\ OneLiveHandle'
        /\ \A h \in Handles :
             (h \notin Undestroyed /\ h \in Undestroyed')
             => /\ \E i \in RestartRuns :
                     /\ restarts[i].pc = "destroy"
                     /\ restarts[i].target = client
                     /\ restarts'[i] = [pc |-> "initialize", target |-> h]
                /\ handles[client] = "destroying"
                /\ handles'[client] = "destroyed"
                /\ handles'[h] = "live"
                /\ client' = h
                /\ client' # client]_vars

C19_Witness ==
  /\ client = 2
  /\ handles[1] = "destroyed"
  /\ handles[2] = "live"
  /\ \E i \in RestartRuns : restarts[i] = [pc |-> "initialize", target |-> 2]

(* C20: when the destroy() of the current handle rejects inside a restart, *)
(* the restart goes on: in that same attempt a replacement handle is       *)
(* constructed and its initialize() is called.                             *)
C20_TeardownFailureNotFatal ==
  [][\A i \in RestartRuns :
       ( /\ restarts[i].pc = "destroy"
         /\ DestroySettled(i, FALSE) )
       => /\ restarts'[i].pc = "initialize"
          /\ client' # client
          /\ handles'[client'] = "live"]_vars


(* C13: after every 'ready' event whatsappReady is true, restartAttempts  *)
(* is 0 and no pairing artifact is pending: qrCodePath is null and no      *)
(* pairing image file remains, also when the write of an earlier 'qr'      *)
(* event has not completed or has failed.                                  *)
C13_ReadyClearsPairing ==
  [][OnReady => /\ whatsappReady'
                /\ restartAttempts' = 0
                /\ qrCodePath' = Undefined
                /\ ~qrFile']_vars


(* the execution of gracefulShutdown that called process.exit *)
ExitedBy(k) == shutdowns[k].pc = "exited"

(* C17: a shutdown started by uncaughtException or unhandledRejection     *)
(* runs the whole sequence and then exits with a non-zero code, also when  *)
(* every step of the sequence succeeded.                                   *)
C17_FaultExitsNonZero ==
  \A k \in ShutdownRuns :
    (ExitedBy(k) /\ shutdowns[k].signal \in Faults)
    => /\ serverCloses >= 1
       /\ exitCode # NotExited
       /\ exitCode # 0

ShutdownsStarted == { k \in ShutdownRuns : shutdowns[k].pc # "idle" }

(* C18: a signal or fault that arrives while a shutdown is in progress    *)
(* does not run the sequence again: server.close is called at most once,   *)
(* client.destroy is called by at most one shutdown for each handle, and   *)
(* at most one execution of the sequence exists.                           *)
C18_ShutdownIdempotent ==
  /\ serverCloses <= 1
  /\ Cardinality(ShutdownsStarted) <= 1
  /\ \A h \in Handles :
       Cardinality({ k \in ShutdownsStarted : shutdowns[k].target = h }) <= 1


(* C23: in no reachable state are whatsappReady and isRestarting both     *)
(* true, whether a restart starts while the client is ready or a 'ready'   *)
(* event arrives while a restart is in flight.                             *)
C23_NeverReadyAndRestarting == ~(whatsappReady /\ isRestarting)

(* C24: when the process has exited through gracefulShutdown, the         *)
(* destroy() of the current client handle has settled, no pairing image    *)
(* file remains and no constructed client handle is left undestroyed.      *)
C24_ExitAfterTeardown ==
  exitCode # NotExited
  => /\ \E k \in ShutdownRuns : ExitedBy(k) /\ shutdowns[k].target = client
     /\ ~qrFile
     /\ Undestroyed = {}

(* r's handler calls getChats or sendMessage in this step *)
IssuesClientCall(r) ==
  \/ req'[r].pc = "getChats" /\ req[r].pc # "getChats"
  \/ req'[r].pc = "sendMessage" /\ req[r].pc # "sendMessage"

(* C28: every getChats and sendMessage call of a dispatch is issued in a  *)
(* state where whatsappReady is true and the current client handle is      *)
(* neither destroyed nor being destroyed, the sendMessage after an awaited *)
(* getChats and the calls of the second attempt included.                  *)
C28_CallsOnlyWhenReady ==
  [][\A r \in Requests :
       IssuesClientCall(r) => (whatsappReady /\ handles[client] = "live")]_vars


(* C25: an 'auth_failure' event only downgrades readiness: it sets        *)
(* whatsappReady to false, schedules no restart, and leaves isRestarting,  *)
(* restartAttempts, the pairing artifact, the client handle and every      *)
(* other variable unchanged.                                               *)
C25_AuthFailureDowngradesOnly ==
  [][OnAuthFailure
       => /\ ~whatsappReady'
          /\ UNCHANGED << AUTH_TOKEN, shutVars, qrVars, client, isRestarting,
                          restartAttempts, manualRequired, handles, restarts,
                          timers, req >>]_vars

C25_Witness ==
  /\ ~whatsappReady
  /\ ~isRestarting
  /\ restartAttempts = 0
  /\ TimerCount = 0
  /\ handles[client] = "live"
  /\ \E r \in Requests : req[r].pc = "getChats" /\ req[r].sendAttempts = 1

(* C26: a 'disconnected' event that arrives while isRestarting is true    *)
(* schedules no timer and starts no restart: the timers, restartAttempts,  *)
(* the restart in flight and the client handle are as before.              *)
C26_DisconnectWhileRestarting ==
  [][(isRestarting /\ OnDisconnected)
       => /\ timers' = timers
          /\ ~whatsappReady'
          /\ UNCHANGED << isRestarting, restartAttempts, restarts, client, handles >>]_vars

C26_Witness ==
  /\ isRestarting
  /\ ~whatsappReady
  /\ restartAttempts = 1
  /\ TimerCount = 0
  /\ qrCodePath = Undefined
  /\ qrWrites = 1


(* C27: a restart timer is never cancelled, and its callback looks at     *)
(* isRestarting only: a timer is removed only by firing, and every timer   *)
(* that fires while no restart is in flight starts a restart that          *)
(* increments restartAttempts, whether or not the client is ready again    *)
(* and whether or not the budget is used up.                               *)
C27_TimersOnlyCheckInFlight ==
  [][/\ (TimerCount' < TimerCount)
          => /\ timers[0] > 0
             /\ timers' = [timers EXCEPT ![0] = @ - 1]
     /\ (timers[0] > 0 /\ TimerFired /\ ~isRestarting)
          => /\ isRestarting'
             /\ restartAttempts' = restartAttempts + 1
             /\ Cardinality(InFlight') = 1
     /\ (timers[0] > 0 /\ TimerFired /\ isRestarting)
          => UNCHANGED << isRestarting, restartAttempts, restarts, client, handles >>]_vars

C27_Witness ==
  /\ isRestarting
  /\ restartAttempts = MAX_RESTART_ATTEMPTS + 1
  /\ manualRequired


(* C21: every restart that sets isRestarting to true sets it back to      *)
(* false, also when destroy() or initialize() never settles: isRestarting  *)
(* does not stay true forever.                                             *)
C21_RestartingEventuallyClears == isRestarting ~> ~isRestarting

(* C22: a 'disconnected' event sets whatsappReady to false and discards   *)
(* the pairing artifact (qrCodePath is null and GET /qr serves no image);  *)
(* if isRestarting is false and restartAttempts < MAX_RESTART_ATTEMPTS it  *)
(* sets one timer with the full delay of 5 units and starts no restart in  *)
(* that step, otherwise it sets no timer; and timers do not stay pending:  *)
(* timer callbacks call restartWhatsAppClient again and again, or from     *)
(* some moment on no timer is pending.                                     *)
C22_DisconnectSchedulesRestart ==
  /\ [][OnDisconnected
          => /\ ~whatsappReady'
             /\ qrCodePath' = Undefined
             /\ ~QrRetrievable'
             /\ IF ~isRestarting /\ restartAttempts < MAX_RESTART_ATTEMPTS
                THEN /\ timers'[5] = timers[5] + 1
                     /\ \A d \in 0..4 : timers'[d] = timers[d]
                ELSE timers' = timers
             /\ UNCHANGED << isRestarting, restartAttempts, restarts, client, handles >>]_vars
  /\ ([]<><<TimerFired>>_vars \/ <>[](TimerCount = 0))

C22_Witness ==
  /\ ~whatsappReady
  /\ qrCodePath = Undefined
  /\ qrFile
  /\ timers[5] = 1
  /\ ~isRestarting
  /\ restartAttempts = 0

====
